---------------------------- MODULE Spec2Model ----------------------------
(***************************************************************************)
(* Iterated prisoner's dilemma of src/main.rs: one coordinator future      *)
(* (the async block of main) interrogates two Prisoner actors, blue and    *)
(* red, once per round, resolves the payoffs and feeds them back with the  *)
(* next round's Interrogate message.                                       *)
(***************************************************************************)
EXTENDS Integers, Sequences, FiniteSets, TLC

\* ------------------------------------------------------------------ bounds
\* Largest number of rounds explored with freely chosen strategies.
MaxIterations == 3

\* ------------------------------------------------------------- data model
\* const ITERATIONS of main.
ITERATIONS == 100

\* enum Action.
Action == {"COOPERATE", "DEFECT"}

\* enum Payoff.
Payoff == {"NULL", "REWARD", "PUNISHMENT", "TEMPTATION", "SUCKER"}

\* The two Prisoner actors main starts.
Prisoners == {"blue", "red"}

Other(p) == IF p = "blue" THEN "red" ELSE "blue"

\* Box<dyn Strategy>: an Action is its own (fixed) strategy, RandomStrategy
\* is the other implementation.
Strategies == Action \cup {"RandomStrategy"}

\* Strategy::choose: the set of actions a call may return.
choose(s) == IF s \in Action THEN {s} ELSE Action

\* The payoff_values map main fills in.
DefaultPayoffValues ==
    [k \in {"REWARD", "TEMPTATION", "PUNISHMENT", "SUCKER"} |->
        CASE k = "REWARD" -> 3
          [] k = "TEMPTATION" -> 4
          [] k = "PUNISHMENT" -> 2
          [] k = "SUCKER" -> 1]

\* The lookup with another default for a kind the table lacks.
Amount_or_one(values, kind) == IF kind \in DOMAIN values THEN values[kind] ELSE 1

\* payoff_values.get(&kind).unwrap_or(&0)
Amount(values, kind) == IF kind \in DOMAIN values THEN values[kind] ELSE 0

\* compute_payoff as its comment words it: the defector is tempted.
compute_payoff_as_commented(red, blue) ==
    CASE red = "COOPERATE" /\ blue = "COOPERATE" -> <<"REWARD", "REWARD">>
      [] red = "DEFECT" /\ blue = "DEFECT" -> <<"PUNISHMENT", "PUNISHMENT">>
      [] red = "DEFECT" /\ blue = "COOPERATE" -> <<"TEMPTATION", "SUCKER">>
      [] red = "COOPERATE" /\ blue = "DEFECT" -> <<"SUCKER", "TEMPTATION">>

\* compute_payoff with the last arm a copy of the one above it.
compute_payoff_copied_arm(red, blue) ==
    CASE red = "COOPERATE" /\ blue = "COOPERATE" -> <<"REWARD", "REWARD">>
      [] red = "DEFECT" /\ blue = "DEFECT" -> <<"PUNISHMENT", "PUNISHMENT">>
      [] red = "DEFECT" /\ blue = "COOPERATE" -> <<"SUCKER", "TEMPTATION">>
      [] red = "COOPERATE" /\ blue = "DEFECT" -> <<"SUCKER", "TEMPTATION">>

\* compute_payoff that leaves a betrayed cooperator its reward.
compute_payoff_unilateral(red, blue) ==
    CASE red = "COOPERATE" /\ blue = "COOPERATE" -> <<"REWARD", "REWARD">>
      [] red = "DEFECT" /\ blue = "DEFECT" -> <<"PUNISHMENT", "PUNISHMENT">>
      [] red = "DEFECT" /\ blue = "COOPERATE" -> <<"SUCKER", "REWARD">>
      [] red = "COOPERATE" /\ blue = "DEFECT" -> <<"REWARD", "SUCKER">>

\* fn compute_payoff(red, blue) -> (red's payoff, blue's payoff)
compute_payoff(red, blue) ==
    CASE red = "COOPERATE" /\ blue = "COOPERATE" -> <<"REWARD", "REWARD">>
      [] red = "DEFECT" /\ blue = "DEFECT" -> <<"PUNISHMENT", "PUNISHMENT">>
      [] red = "DEFECT" /\ blue = "COOPERATE" -> <<"SUCKER", "TEMPTATION">>
      [] red = "COOPERATE" /\ blue = "DEFECT" -> <<"TEMPTATION", "SUCKER">>

\* Result::unwrap on the Result of a request: the Ok action, or a panic.
unwrap_or_default(result) == IF result \in Action THEN result ELSE "DEFECT"

unwrap(result) == IF result \in Action THEN result ELSE "panic"

\* The loop's exit test, `sequence >= ITERATIONS`, on the incremented sequence.
break_off_by_one(seq, n) == seq > n

break_early(seq, n) == seq + 1 >= n

break(seq, n) == seq >= n

\* T > R > P > S and 2R > T + S, the table compute_payoff's comment asks for.
BalancedPayoffValues(values) ==
    /\ DOMAIN values = Payoff \ {"NULL"}
    /\ values["TEMPTATION"] > values["REWARD"]
    /\ values["REWARD"] > values["PUNISHMENT"]
    /\ values["PUNISHMENT"] > values["SUCKER"]
    /\ 2 * values["REWARD"] > values["TEMPTATION"] + values["SUCKER"]

\* `self.score += msg.prev_amount` of handle, and three slips of it.
sub_score(score_, amount) == score_ - amount

set_score(score_, amount) == amount

add_score_twice(score_, amount) == score_ + 2 * amount

add_score(score_, amount) == score_ + amount

\* struct Interrogate
Interrogate(seq, payoff, amount) ==
    [sequence |-> seq, prev_payoff |-> payoff, prev_amount |-> amount]

\* ------------------------------------------------------------------ state
VARIABLES
    iterations,     \* the run's ITERATIONS
    payoff_values,  \* the payoff table
    strategy,       \* Prisoner.strategy, per prisoner
    score,          \* Prisoner.score, per prisoner
    mailbox,        \* Interrogate messages sent to a prisoner, not yet handled
    pc,             \* where the coordinator's future stands
    sequence,
    blue_payoff, blue_amount, red_payoff, red_amount,
    blue_result, red_result,  \* "None", "Pending", "Err" or the Ok action
    sent,           \* history: every Interrogate sent, in order
    handled,        \* history: how many Interrogate messages a prisoner handled
    rounds          \* history: every resolved round, in order

vars == <<iterations, payoff_values, strategy, score, mailbox, pc, sequence,
          blue_payoff, blue_amount, red_payoff, red_amount,
          blue_result, red_result, sent, rounds, handled>>

config == <<iterations, payoff_values, strategy>>
feedback == <<blue_payoff, blue_amount, red_payoff, red_amount>>

\* The result of the last send to p.
Result(p) == IF p = "blue" THEN blue_result ELSE red_result

\* State of main's future and of the two actors right after construction
\* (lines 119-136), for a given configuration.
Start ==
    /\ score = [p \in Prisoners |-> 0]
    /\ mailbox = [p \in Prisoners |-> <<>>]
    /\ pc = "send_blue"
    /\ sequence = 0
    /\ blue_payoff = "NULL" /\ blue_amount = 0
    /\ red_payoff = "NULL" /\ red_amount = 0
    /\ blue_result = "None" /\ red_result = "None"
    /\ sent = <<>>
    /\ rounds = <<>>
    /\ handled = [p \in Prisoners |-> 0]

Init ==
    /\ iterations \in 1..MaxIterations
    /\ payoff_values = DefaultPayoffValues
    /\ strategy \in [Prisoners -> Strategies]
    /\ Start

\* The fixed-strategy runs: two Action strategies, over 5, 10 or ITERATIONS
\* rounds.
InitFixed ==
    /\ iterations \in {5, 10, ITERATIONS}
    /\ payoff_values = DefaultPayoffValues
    /\ strategy \in [Prisoners -> Action]
    /\ Start

\* Tables a run may be configured with: the one of main, one out of order,
\* one with 2R <= T + S, one with no entry for SUCKER.
PayoffTables ==
    { DefaultPayoffValues,
      [DefaultPayoffValues EXCEPT !["REWARD"] = 4, !["TEMPTATION"] = 3],
      [DefaultPayoffValues EXCEPT !["TEMPTATION"] = 6],
      [k \in {"REWARD", "TEMPTATION", "PUNISHMENT"} |-> DefaultPayoffValues[k]] }

\* Any configuration, the unbalanced and the empty ones included.
InitConfig ==
    /\ iterations \in 0..MaxIterations
    /\ payoff_values \in PayoffTables
    /\ strategy \in [Prisoners -> Strategies]
    /\ Start

\* ---------------------------------------------------------------- actions
\* SendBlue that also issues blue's next Interrogate while red's answer to
\* the current round is still awaited.
SendBlueAhead ==
    /\ \/ pc = "send_blue" /\ pc' = "await_blue" /\ blue_result' = "Pending"
          /\ sent' = Append(sent, [to |-> "blue", sequence |-> sequence,
                                   prev_payoff |-> blue_payoff,
                                   prev_amount |-> blue_amount])
          /\ mailbox' = [mailbox EXCEPT !["blue"] =
                 Append(@, Interrogate(sequence, blue_payoff, blue_amount))]
       \/ /\ pc = "await_red" /\ red_result = "Pending"
          /\ \A i \in 1..Len(sent) : sent[i].sequence <= sequence
          /\ UNCHANGED <<pc, blue_result>>
          /\ sent' = Append(sent, [to |-> "blue", sequence |-> sequence + 1,
                                   prev_payoff |-> blue_payoff,
                                   prev_amount |-> blue_amount])
          /\ mailbox' = [mailbox EXCEPT !["blue"] =
                 Append(@, Interrogate(sequence + 1, blue_payoff, blue_amount))]
    /\ UNCHANGED <<config, score, handled, sequence, feedback, red_result, rounds>>

\* SendBlue that sends the Interrogate twice.
SendBlueTwice ==
    /\ pc = "send_blue"
    /\ LET msg == Interrogate(sequence, blue_payoff, blue_amount)
           entry == [to |-> "blue", sequence |-> sequence,
                     prev_payoff |-> blue_payoff, prev_amount |-> blue_amount]
       IN /\ mailbox' = [mailbox EXCEPT !["blue"] = Append(Append(@, msg), msg)]
          /\ sent' = Append(Append(sent, entry), entry)
    /\ blue_result' = "Pending"
    /\ pc' = "await_blue"
    /\ UNCHANGED <<config, score, handled, sequence, feedback, red_result, rounds>>

\* blue_addr.send(Interrogate {..}) up to the .await (lines 139-145).
SendBlue ==
    /\ pc = "send_blue"
    /\ mailbox' = [mailbox EXCEPT
           !["blue"] = Append(@, Interrogate(sequence, blue_payoff, blue_amount))]
    /\ sent' = Append(sent, [to |-> "blue", sequence |-> sequence,
                             prev_payoff |-> blue_payoff,
                             prev_amount |-> blue_amount])
    /\ blue_result' = "Pending"
    /\ pc' = "await_blue"
    /\ UNCHANGED <<config, score, handled, sequence, feedback, red_result, rounds>>

\* SendRed that feeds red with blue's payoff and amount.
SendRedSwapped ==
    /\ pc = "await_blue"
    /\ blue_result # "Pending"
    /\ mailbox' = [mailbox EXCEPT
           !["red"] = Append(@, Interrogate(sequence, blue_payoff, blue_amount))]
    /\ sent' = Append(sent, [to |-> "red", sequence |-> sequence,
                             prev_payoff |-> blue_payoff,
                             prev_amount |-> blue_amount])
    /\ red_result' = "Pending"
    /\ pc' = "await_red"
    /\ UNCHANGED <<config, score, handled, sequence, feedback, blue_result, rounds>>

\* SendRed that feeds red with its own payoff and blue's amount.
SendRedMixed ==
    /\ pc = "await_blue"
    /\ blue_result # "Pending"
    /\ mailbox' = [mailbox EXCEPT
           !["red"] = Append(@, Interrogate(sequence, red_payoff, blue_amount))]
    /\ sent' = Append(sent, [to |-> "red", sequence |-> sequence,
                             prev_payoff |-> red_payoff,
                             prev_amount |-> blue_amount])
    /\ red_result' = "Pending"
    /\ pc' = "await_red"
    /\ UNCHANGED <<config, score, handled, sequence, feedback, blue_result, rounds>>

\* The blue await completes; red_addr.send(Interrogate {..}) up to the
\* .await (lines 145-153).
SendRed ==
    /\ pc = "await_blue"
    /\ blue_result # "Pending"
    /\ mailbox' = [mailbox EXCEPT
           !["red"] = Append(@, Interrogate(sequence, red_payoff, red_amount))]
    /\ sent' = Append(sent, [to |-> "red", sequence |-> sequence,
                             prev_payoff |-> red_payoff,
                             prev_amount |-> red_amount])
    /\ red_result' = "Pending"
    /\ pc' = "await_red"
    /\ UNCHANGED <<config, score, handled, sequence, feedback, blue_result, rounds>>

\* Handler<Interrogate> for Prisoner: handle (lines 69-79); the returned
\* action completes the coordinator's request.
Handle(p) ==
    /\ mailbox[p] # <<>>
    /\ LET msg == Head(mailbox[p]) IN
       /\ score' = [score EXCEPT ![p] = add_score(@, msg.prev_amount)]
       /\ \E action \in choose(strategy[p]) :
            IF p = "blue"
            THEN blue_result' = action /\ UNCHANGED red_result
            ELSE red_result' = action /\ UNCHANGED blue_result
    /\ mailbox' = [mailbox EXCEPT ![p] = Tail(@)]
    /\ handled' = [handled EXCEPT ![p] = @ + 1]
    /\ UNCHANGED <<config, pc, sequence, feedback, sent, rounds>>

\* The request to p completes with Err(MailboxError): p never handles the
\* message (the Result of send(..).await, lines 139-153).
Fault(p) ==
    /\ mailbox[p] # <<>>
    /\ mailbox' = [mailbox EXCEPT ![p] = Tail(@)]
    /\ IF p = "blue"
       THEN blue_result' = "Err" /\ UNCHANGED red_result
       ELSE red_result' = "Err" /\ UNCHANGED blue_result
    /\ UNCHANGED <<config, score, handled, pc, sequence, feedback, sent, rounds>>

\* The red await completes; the rest of the loop body (lines 153-170).
Resolve ==
    /\ pc = "await_red"
    /\ red_result # "Pending"
    /\ LET red_action == unwrap(red_result)
           blue_action == unwrap(blue_result)
           payoff == compute_payoff(red_action, blue_action)
       IN IF red_action = "panic" \/ blue_action = "panic"
          THEN /\ pc' = "panicked"
               /\ UNCHANGED <<sequence, feedback, blue_result, red_result,
                              rounds>>
          ELSE /\ red_payoff' = payoff[1]
               /\ red_amount' = Amount(payoff_values, payoff[1])
               /\ blue_payoff' = payoff[2]
               /\ blue_amount' = Amount(payoff_values, payoff[2])
               /\ sequence' = sequence + 1
               /\ rounds' = Append(rounds,
                      [red_action |-> red_action, blue_action |-> blue_action,
                       red_payoff |-> payoff[1],
                       red_amount |-> Amount(payoff_values, payoff[1]),
                       blue_payoff |-> payoff[2],
                       blue_amount |-> Amount(payoff_values, payoff[2])])
               /\ pc' = IF break(sequence + 1, iterations) THEN "completed"
                                                           ELSE "send_blue"
               /\ blue_result' = "None" /\ red_result' = "None"
    /\ UNCHANGED <<config, score, handled, mailbox, sent>>

\* System::current().stop() (line 173): the actors stop.
Stop ==
    /\ pc = "completed"
    /\ pc' = "stopped"
    /\ UNCHANGED <<config, score, handled, mailbox, sequence, feedback,
                   blue_result, red_result, sent, rounds>>

Next ==
    \/ SendBlue
    \/ SendRed
    \/ Resolve
    \/ Stop
    \/ \E p \in Prisoners : Handle(p)
    \/ \E p \in Prisoners : Fault(p)

Spec == Init /\ [][Next]_vars

\* The fixed-strategy runs.
SpecFixed == InitFixed /\ [][Next]_vars

\* Runs from any configuration.
SpecConfig == InitConfig /\ [][Next]_vars

\* The arbiter polls every ready future and every non-empty mailbox, so each
\* step of the coordinator and each delivered message is eventually taken;
\* nothing obliges a request to fail.
Fairness ==
    /\ WF_vars(SendBlue)
    /\ WF_vars(SendRed)
    /\ WF_vars(Resolve)
    /\ WF_vars(Stop)
    /\ \A p \in Prisoners : WF_vars(Handle(p))

FairSpec == Init /\ [][Next]_vars /\ Fairness

\* ----------------------------------------------------------- observations
\* The kind and the amount a resolved round awards to p.
KindOf(p, round) == IF p = "blue" THEN round.blue_payoff ELSE round.red_payoff
AmountOf(p, round) == IF p = "blue" THEN round.blue_amount ELSE round.red_amount

\* The sum of the amounts awarded to p in the first n resolved rounds.
RECURSIVE AwardedUpTo(_, _)
AwardedUpTo(p, n) ==
    IF n = 0 THEN 0 ELSE AwardedUpTo(p, n - 1) + AmountOf(p, rounds[n])

Awarded(p) == AwardedUpTo(p, Len(rounds))

\* The loop has exited normally.
Completed == pc \in {"completed", "stopped"}

\* A request to p has failed.
Faulted(p) == Result(p) = "Err"

\* The sequence number of the last Interrogate sent to p (-1 when none).
RECURSIVE LastSentUpTo(_, _)
LastSentUpTo(p, n) ==
    IF n = 0 THEN -1
    ELSE IF sent[n].to = p THEN sent[n].sequence ELSE LastSentUpTo(p, n - 1)

LastSent(p) == LastSentUpTo(p, Len(sent))

\* How many Interrogate messages with sequence k were sent to p.
SentCount(p, k) ==
    Cardinality({i \in 1..Len(sent) : sent[i].to = p /\ sent[i].sequence = k})

\* iteration_count > 0 and a balanced payoff table.
ValidConfig == iterations > 0 /\ BalancedPayoffValues(payoff_values)

\* The resolution table: (own, opponent) -> (own kind, opponent kind).
ResolveTable(own, opponent) ==
    CASE own = "COOPERATE" /\ opponent = "COOPERATE" -> <<"REWARD", "REWARD">>
      [] own = "DEFECT" /\ opponent = "DEFECT" -> <<"PUNISHMENT", "PUNISHMENT">>
      [] own = "DEFECT" /\ opponent = "COOPERATE" -> <<"SUCKER", "TEMPTATION">>
      [] own = "COOPERATE" /\ opponent = "DEFECT" -> <<"TEMPTATION", "SUCKER">>
      [] OTHER -> <<"NULL", "NULL">>

Swap(pair) == <<pair[2], pair[1]>>

\* ----------------------------------------------------------------- claims
\* C1: when the coordinator has completed, each prisoner's score is the sum
\* of the amounts awarded to it over all resolved rounds, the last included.
C1_FinalScoreIsSumOfAwards ==
    Completed => \A p \in Prisoners : score[p] = Awarded(p)

\* C2: two prisoners with the same fixed strategy resolve every round to
\* the same pair of kinds, (REWARD, REWARD) for Cooperate and (PUNISHMENT,
\* PUNISHMENT) for Defect, and end with iterations times that kind's value.
C2_SameFixedStrategy ==
    (strategy["blue"] = strategy["red"] /\ strategy["blue"] \in Action) =>
        LET kind == IF strategy["blue"] = "COOPERATE" THEN "REWARD"
                                                      ELSE "PUNISHMENT"
        IN /\ \A i \in 1..Len(rounds) :
                 rounds[i].red_payoff = kind /\ rounds[i].blue_payoff = kind
           /\ Completed =>
                 \A p \in Prisoners :
                     score[p] = iterations * Amount(payoff_values, kind)

\* C3: Fixed(Cooperate) against Fixed(Defect) over 5 rounds: in every round
\* the cooperator is assigned SUCKER and the defector TEMPTATION, and they
\* end with 5 x Sucker and 5 x Temptation.
C3_CooperatorAgainstDefector ==
    \A p \in Prisoners :
        (iterations = 5 /\ strategy[p] = "COOPERATE"
                        /\ strategy[Other(p)] = "DEFECT") =>
            /\ \A i \in 1..Len(rounds) :
                  /\ KindOf(p, rounds[i]) = "SUCKER"
                  /\ KindOf(Other(p), rounds[i]) = "TEMPTATION"
            /\ Completed =>
                  /\ score[p] = 5 * Amount(payoff_values, "SUCKER")
                  /\ score[Other(p)] = 5 * Amount(payoff_values, "TEMPTATION")

\* C4: round barrier. Every Interrogate ever sent carries a sequence number
\* whose earlier rounds are all resolved, the one in a mailbox that of the
\* round being played; and the payoffs and the sequence number change only
\* in a step that starts with both actions of the round received and no
\* message outstanding, and that resolves exactly that round.
C4_RoundBarrier ==
    /\ [](/\ sequence = Len(rounds)
          /\ \A i \in 1..Len(sent) : sent[i].sequence <= Len(rounds)
          /\ \A p \in Prisoners : \A i \in 1..Len(mailbox[p]) :
                 mailbox[p][i].sequence = Len(rounds))
    /\ [][(sequence' # sequence \/ feedback' # feedback \/ rounds' # rounds) =>
            /\ blue_result \in Action /\ red_result \in Action
            /\ \A p \in Prisoners : mailbox[p] = <<>>
            /\ SentCount("blue", sequence) = 1 /\ SentCount("red", sequence) = 1
            /\ sequence' = sequence + 1
            /\ Len(rounds') = Len(rounds) + 1]_vars

\* C4 witness: the round-1 Interrogate is in red's mailbox, round 0 resolved.
C4_Witness ==
    /\ mailbox["red"] # <<>>
    /\ Head(mailbox["red"]).sequence = 1
    /\ Len(rounds) = 1

C6_PayoffSymmetry ==
    /\ \A a \in Action, b \in Action :
          compute_payoff(b, a) = Swap(compute_payoff(a, b))
    /\ \A i \in 1..Len(rounds) :
          compute_payoff(rounds[i].blue_action, rounds[i].red_action) =
              <<rounds[i].blue_payoff, rounds[i].red_payoff>>

\* C6 witness: a round with red cooperating and blue defecting is resolved.
C6_Witness ==
    \E i \in 1..Len(rounds) :
        /\ rounds[i].red_action = "COOPERATE" /\ rounds[i].blue_action = "DEFECT"
        /\ rounds[i].red_payoff = "TEMPTATION" /\ rounds[i].blue_payoff = "SUCKER"

\* C7: once the request of round k to a prisoner has failed, the run stays
\* at sequence k: round k is never resolved, the sequence number and the
\* payoffs never change, the failed result is never replaced by an action,
\* the prisoner is sent nothing more, and no Interrogate with a sequence
\* number greater than k is ever sent to either prisoner.
C7_FaultAborts ==
    /\ [](\A p \in Prisoners : Faulted(p) =>
            /\ sequence = LastSent(p)
            /\ Len(rounds) = LastSent(p)
            /\ SentCount(p, LastSent(p)) = 1
            /\ \A i \in 1..Len(sent) : sent[i].sequence <= LastSent(p)
            /\ pc \in {"await_blue", "await_red", "panicked"})
    /\ [][\A p \in Prisoners : Faulted(p) =>
            /\ Faulted(p)'
            /\ sequence' = sequence /\ feedback' = feedback /\ rounds' = rounds
            /\ \A i \in 1..Len(sent') : i > Len(sent) => sent'[i].to # p]_vars

\* C7 witness: the run has panicked on blue's failure in round 1, after red
\* was sent its round-1 Interrogate.
C7_Witness ==
    /\ pc = "panicked"
    /\ Faulted("blue")
    /\ sequence = 1
    /\ SentCount("red", 1) = 1

\* C8: after a request to one prisoner has failed, the other prisoner's
\* score never changes again.
C8_SurvivorUnchanged ==
    [][\A p \in Prisoners :
          Faulted(p) => score'[Other(p)] = score[Other(p)]]_vars

\* C9: a run configured with no iteration, or with an unbalanced payoff
\* table, executes no round: no Interrogate is ever sent and both scores
\* stay 0.
C9_ConfigurationRejected ==
    ~ValidConfig =>
        /\ sent = <<>>
        /\ \A p \in Prisoners : mailbox[p] = <<>> /\ score[p] = 0
        /\ rounds = <<>>

\* C10: unless a request fails, the run eventually completes, with sequence
\* equal to iterations after exactly that many resolved rounds, each
\* prisoner having been sent exactly that many messages; once completed, no
\* message is sent and the sequence number never changes.
C10_Completes ==
    /\ <>((\E p \in Prisoners : Faulted(p)) \/ Completed)
    /\ [](Completed =>
            /\ sequence = iterations
            /\ Len(rounds) = iterations
            /\ \A p \in Prisoners :
                  /\ mailbox[p] = <<>>
                  /\ Cardinality({i \in 1..Len(sent) : sent[i].to = p})
                         = iterations)
    /\ [][Completed =>
            Completed' /\ sequence' = sequence /\ sent' = sent
                       /\ mailbox' = mailbox]_vars

\* C10 witness: the run has completed and stopped after more than one round.
C10_Witness ==
    pc = "stopped" /\ sequence = iterations /\ iterations > 1

\* The amount the run's table gives for a kind: its entry, 0 without one.
TableValue(kind) ==
    IF kind \in DOMAIN payoff_values THEN payoff_values[kind] ELSE 0

\* No request has failed.
NoFault == \A p \in Prisoners : ~Faulted(p)

\* How many Interrogate messages were sent to p.
SentTo(p) == Cardinality({i \in 1..Len(sent) : sent[i].to = p})

\* C11: score monotonicity: each score starts at 0, is never negative, and
\* no step decreases it.
C11_ScoreMonotone ==
    /\ \A p \in Prisoners : score[p] = 0
    /\ [](\A p \in Prisoners : score[p] >= 0)
    /\ [][\A p \in Prisoners : score'[p] >= score[p]]_vars

\* C11 witness: red's score has grown twice, from 0 to 4 and from 4 to 5.
C11_Witness ==
    handled["red"] = 3 /\ score["red"] = 5 /\ rounds[1].red_amount = 4

\* C12: the payoff lookup is total: every amount the coordinator holds or
\* has awarded is the table's value for its kind, and 0 for NULL and for a
\* kind the table lacks; the table never changes during play.
C12_LookupTotal ==
    /\ [](/\ red_amount = TableValue(red_payoff)
          /\ blue_amount = TableValue(blue_payoff)
          /\ \A i \in 1..Len(rounds) :
                /\ rounds[i].red_amount = TableValue(rounds[i].red_payoff)
                /\ rounds[i].blue_amount = TableValue(rounds[i].blue_payoff)
          /\ \A kind \in Payoff :
                /\ Amount(payoff_values, kind) \in Nat
                /\ kind \notin DOMAIN payoff_values =>
                       Amount(payoff_values, kind) = 0
          /\ Amount(payoff_values, "NULL") = 0)
    /\ [][payoff_values' = payoff_values]_vars

\* C12 witness: a round awarded SUCKER under a table with no SUCKER entry,
\* for the amount 0.
C12_Witness ==
    /\ "SUCKER" \notin DOMAIN payoff_values
    /\ blue_payoff = "SUCKER" /\ blue_amount = 0
    /\ red_payoff = "TEMPTATION" /\ red_amount = 4

\* C13: feedback pipeline: the round-0 Interrogate carries (NULL, 0) for
\* both prisoners; for k > 0 the round-k Interrogate to red carries the
\* first component of the table's resolution of (red's action, blue's
\* action) of round k-1 and the one to blue the second component.
C13_FeedbackPipeline ==
    \A i \in 1..Len(sent) :
        LET k == sent[i].sequence IN
        IF k = 0
        THEN sent[i].prev_payoff = "NULL" /\ sent[i].prev_amount = 0
        ELSE /\ k <= Len(rounds)
             /\ sent[i].prev_payoff =
                    ResolveTable(rounds[k].red_action, rounds[k].blue_action)
                        [IF sent[i].to = "red" THEN 1 ELSE 2]

\* C13 witness: red's round-2 Interrogate carries SUCKER, after a round 0
\* that gave red TEMPTATION and a round 1 with red defecting against a
\* cooperating blue.
C13_Witness ==
    /\ Len(sent) = 6
    /\ sent[6].to = "red" /\ sent[6].sequence = 2
    /\ sent[6].prev_payoff = "SUCKER"
    /\ rounds[1].red_payoff = "TEMPTATION"
    /\ rounds[2].red_action = "DEFECT" /\ rounds[2].blue_action = "COOPERATE"

\* C14: a prisoner that has handled the Interrogate messages of rounds
\* 0..k has as score the sum of the amounts awarded to it in rounds 0..k-1:
\* round k is not in it.
C14_ScoreAfterHandling ==
    \A p \in Prisoners :
        IF handled[p] = 0
        THEN score[p] = 0
        ELSE /\ handled[p] - 1 <= Len(rounds)
             /\ score[p] = AwardedUpTo(p, handled[p] - 1)

\* C14 witness: blue has handled round 2 with round 2 resolved: its score
\* is the sum of rounds 0 and 1, short of what it was awarded.
C14_Witness ==
    /\ handled["blue"] = 3 /\ Len(rounds) = 3
    /\ score["blue"] = rounds[1].blue_amount + rounds[2].blue_amount
    /\ score["blue"] < Awarded("blue")

\* C15: exclusive ownership: a prisoner's score changes only in a step in
\* which that prisoner handles a message of its own mailbox, and then by
\* exactly that message's prev_amount; every other step leaves it as it is.
C15_ExclusiveOwnership ==
    [][\A p \in Prisoners :
          IF handled'[p] # handled[p]
          THEN /\ handled'[p] = handled[p] + 1
               /\ mailbox[p] # <<>>
               /\ score'[p] = score[p] + Head(mailbox[p]).prev_amount
               /\ score'[Other(p)] = score[Other(p)]
               /\ UNCHANGED <<pc, sequence, feedback>>
          ELSE score'[p] = score[p]]_vars

\* C15 witness: blue has handled a message that added 4 to its score while
\* red's score stayed 0.
C15_Witness ==
    /\ handled["blue"] = 2 /\ handled["red"] = 1
    /\ score["blue"] = 4 /\ score["red"] = 0

\* C16: per-prisoner serialization: a prisoner never has more than one
\* Interrogate sent and not yet answered, and it is sent one only when its
\* mailbox is empty and its previous request is complete.
C16_Serialized ==
    /\ [](\A p \in Prisoners :
            /\ Len(mailbox[p]) <= 1
            /\ SentTo(p) - handled[p] - (IF Faulted(p) THEN 1 ELSE 0)
                   = Len(mailbox[p])
            /\ mailbox[p] # <<>> <=> Result(p) = "Pending")
    /\ [][\A p \in Prisoners :
            SentTo(p)' # SentTo(p) =>
                /\ SentTo(p)' = SentTo(p) + 1
                /\ mailbox[p] = <<>>
                /\ Result(p) # "Pending"]_vars

\* C16 witness: red holds its second Interrogate, the first one answered.
C16_Witness ==
    Len(mailbox["red"]) = 1 /\ handled["red"] = 1 /\ SentTo("red") = 2

\* C17: dispatch is sequential: red holds an Interrogate only when blue's
\* request of the same round is complete, at most one Interrogate is in a
\* mailbox at any time, and blue has handled as many messages as red or
\* exactly one more.
C17_SequentialDispatch ==
    /\ Len(mailbox["blue"]) + Len(mailbox["red"]) <= 1
    /\ mailbox["red"] # <<>> =>
           /\ blue_result \notin {"None", "Pending"}
           /\ SentCount("blue", Head(mailbox["red"]).sequence) = 1
    /\ handled["blue"] - handled["red"] \in {0, 1}

\* C18: in a run with no failed request, the Interrogate messages go out
\* as blue 0, red 0, blue 1, red 1, ...: one per prisoner and round, in
\* increasing order with no number skipped or repeated and the same number
\* for both within a round; at completion each prisoner has been sent and
\* has handled exactly iterations messages.
C18_OnePerRound ==
    NoFault =>
        /\ \A i \in 1..Len(sent) :
              /\ sent[i].to = IF i % 2 = 1 THEN "blue" ELSE "red"
              /\ sent[i].sequence = (i - 1) \div 2
              /\ sent[i].sequence < iterations
        /\ \A p \in Prisoners : handled[p] <= iterations
        /\ Completed =>
              \A p \in Prisoners :
                  SentTo(p) = iterations /\ handled[p] = iterations

\* C18 witness: a run of three rounds has completed with no failed request.
C18_Witness ==
    /\ NoFault /\ Completed /\ iterations = 3
    /\ Len(sent) = 6 /\ handled["blue"] = 3 /\ handled["red"] = 3

\* C19: every Interrogate ever sent, and every one in a mailbox, carries as
\* prev_amount the table's value for the prev_payoff it carries, 0 for NULL
\* and for a kind the table lacks.
C19_AmountMatchesKind ==
    /\ \A i \in 1..Len(sent) :
          sent[i].prev_amount = TableValue(sent[i].prev_payoff)
    /\ \A p \in Prisoners : \A i \in 1..Len(mailbox[p]) :
          mailbox[p][i].prev_amount = TableValue(mailbox[p][i].prev_payoff)

\* C19 witness: red is sent TEMPTATION with its amount while blue was sent
\* SUCKER with another amount.
C19_Witness ==
    /\ mailbox["red"] # <<>>
    /\ Head(mailbox["red"]).prev_payoff = "TEMPTATION"
    /\ Head(mailbox["red"]).prev_amount = TableValue("TEMPTATION")
    /\ blue_payoff = "SUCKER"
    /\ TableValue("SUCKER") # TableValue("TEMPTATION")

\* C20: the kinds the coordinator holds for (red, blue) are one of (NULL,
\* NULL), (REWARD, REWARD), (PUNISHMENT, PUNISHMENT), (SUCKER, TEMPTATION),
\* (TEMPTATION, SUCKER), and (NULL, NULL) exactly while no round is resolved.
C20_FeedbackPairs ==
    /\ <<red_payoff, blue_payoff>> \in
           { <<"NULL", "NULL">>, <<"REWARD", "REWARD">>,
             <<"PUNISHMENT", "PUNISHMENT">>, <<"SUCKER", "TEMPTATION">>,
             <<"TEMPTATION", "SUCKER">> }
    /\ <<red_payoff, blue_payoff>> = <<"NULL", "NULL">> <=> rounds = <<>>

\* C20 witness: the coordinator holds (SUCKER, TEMPTATION) after (REWARD,
\* REWARD).
C20_Witness ==
    /\ red_payoff = "SUCKER" /\ blue_payoff = "TEMPTATION"
    /\ Len(rounds) = 2 /\ rounds[1].red_payoff = "REWARD"

=============================================================================
